---- MODULE Spec2Model ----
(***************************************************************************)
(* The streaming search pipeline of src/api/main.py (event_stream) with    *)
(* the judge client (analyze_patent_with_ollama_async), the concurrency    *)
(* gate (analyze_with_limit) and the endpoint rotation of                  *)
(* src/api/services/ollama_service.py (get_next_ollama_url).               *)
(*                                                                         *)
(* One request is modelled.  The coordinating coroutine event_stream is    *)
(* followed through its suspension points (pc); every candidate has one    *)
(* judge task (tasks, created up front at main.py:284-287).  The external  *)
(* collaborators (embedding, similarity index, judge endpoints) are the    *)
(* environment: their answers are drawn with \E.                           *)
(***************************************************************************)
EXTENDS Integers, Sequences, FiniteSets, TLC

\* ---------------------------------------------------------------- bounds
\* Largest candidate list the similarity index returns in the model.
MaxCandidates == 2
\* Largest requested result limit (max_display_results) in the model.
MaxResultLimit == 2
\* Largest configured OLLAMA_CONCURRENCY in the model (the code forces >= 1).
MaxConcurrency == 2
\* Most get_next_ollama_url calls followed when the endpoint pool is checked
\* on its own: more than one turn of the pool.
MaxCalls == 10
MaxUses == 4
MaxRetries == 4
MaxTexts == 4
MaxModels == 3

\* ------------------------------------------------------ program constants
\* main.py:54-56, the defaults of the environment settings.
HIGH_SCORE_THRESHOLD == 60
MEDIUM_SCORE_THRESHOLD == 80
ANALYSIS_PROGRESS_INTERVAL == 1
\* ollama_service.py:4, the number of entries of OLLAMA_PORTS / OLLAMA_URLS.
NumOllamaUrls == 8

\* main.py:377, 383, 394 and routes/search.py:156: the limit a handler uses
\* when the request gives none.
SearchApiDefaultLimit == 15
SearchStreamDefaultLimit == 50
ExportCsvDefaultLimit == 50
SearchPatentsCsvDefaultTopK == 10

\* Scores a judge may answer: below both thresholds, between them, above both.
ScoreValues == {30, 60, 90}

\* What one judge call can meet (main.py:186-244):
\*   scored          the response holds {"score": <number>, "reason": <text>}
\*   scored_noreason the response holds a numeric score and no (or an empty) reason
\*   no_json         extract_json_from_text returns None, or no "score" key
\*   bad_score       float(raw_score) raises TypeError / ValueError
\*   request_error   httpx.RequestError: transport failure or timeout
\*   http_error      raise_for_status / response.json() raise another Exception
FailureKinds == {"no_json", "bad_score", "request_error", "http_error"}
Outcomes ==
    [kind : {"scored", "scored_noreason"}, score : ScoreValues]
        \cup [kind : FailureKinds, score : {0}]

VARIABLES
    pc,                  \* position of event_stream
    max_display_results, \* the request's resultLimit
    concurrency,         \* OLLAMA_CONCURRENCY, the semaphore's initial value
    broken,              \* the endpoint that fails every call, or -1 for none
    events,              \* the SSE events yielded so far, in order
    patents,             \* the candidate dicts of qdrant_search, by index
    tasks,               \* state of each judge task
    url,                 \* endpoint each started judge call was routed to
    met,                 \* what each judge call met ("" while it has not ended)
    cursor,              \* position of _ollama_cycle
    permits,             \* free permits of the semaphore
    completed,           \* as_completed's queue: finished tasks not yet consumed
    processed,           \* the counter processed
    analyzed_patents,    \* the list analyzed_patents (references into patents)
    top_results,         \* the list top_results (references into patents)
    fatal,               \* which single-shot stage failed, "" for none
    picked,              \* every get_next_ollama_url call so far: who, which entry
    finished,            \* the judge tasks in the order their calls ended
    raw_text,            \* verdict parser: the judge's response text
    verdict,             \* verdict parser: what parsing raw_text gave
    request,             \* HTTP layer: the inbound request
    response,            \* HTTP layer: what the route handler returned
    other,               \* run state of a second request served concurrently
    http,                \* the module-level HTTP client and its users
    upsert,              \* vectorization: one upsert_with_retry call
    encode               \* vectorization: one multi-GPU encoding of a batch

\* State of the parts that are checked on their own (verdict parser, routes).
extraVars == <<other, http, upsert, encode>>
unitVars == <<raw_text, verdict, request, response, extraVars>>

vars == <<pc, max_display_results, concurrency, broken, events, patents, tasks,
          url, met, cursor, permits, completed, processed, analyzed_patents,
          top_results, fatal, picked, finished, unitVars>>

\* ---------------------------------------------------------------- helpers
Range(s) == {s[i] : i \in DOMAIN s}

Indices == DOMAIN patents

\* format_sse(event, data): one event on the stream.
LogEvent(m) == [kind |-> "log", message |-> m]
ErrorEvent(m) == [kind |-> "error", message |-> m]
ResultEvent(idx, p) ==
    [kind |-> "result", index |-> idx, original_index |-> idx,
     score |-> p.score, reason |-> p.reason]
CompleteEvent(r, a) == [kind |-> "complete", results |-> r, analyzed |-> a]

\* qdrant_search: every record starts with score None and reason "Pending".
PendingPatent == [scored |-> FALSE, score |-> 0, reason |-> "Pending"]

\* ------------------------------------------------------------ judge client
\* get_next_ollama_url: next(_ollama_cycle) returns the entry under the cursor
\* and moves the cursor one place on, wrapping after the last entry.
\* Mutant: an iterator that is not cycled stays on the last entry.
NextCursorNoWrap(c) == IF c + 1 < NumOllamaUrls THEN c + 1 ELSE c

\* Mutant: the cursor is moved twice per call, skipping an entry.
NextCursorSkip(c) == (c + 2) % NumOllamaUrls

NextCursor(c) == (c + 1) % NumOllamaUrls

\* Mutant: the call takes a second endpoint for a second attempt.
NextOllamaUrlAgain(who) ==
    /\ picked' = picked \o <<[by |-> who, entry |-> cursor],
                               [by |-> who, entry |-> NextCursor(cursor)]>>
    /\ cursor' = NextCursor(NextCursor(cursor))

\* get_next_ollama_url called by who: the entry under the cursor is returned
\* and the cursor moves on.  The function has no suspension point and runs on
\* the event loop's thread, so a call is one step.
NextOllamaUrl(who) ==
    /\ picked' = Append(picked, [by |-> who, entry |-> cursor])
    /\ cursor' = NextCursor(cursor)

\* analyze_patent_with_ollama_async, main.py:199-244: the candidate dict after
\* the call met outcome o.  Every branch but the first two clears the score.
AnalyzeResult(p, o) ==
    CASE o.kind = "scored" ->
            [p EXCEPT !.scored = TRUE, !.score = o.score, !.reason = "judge reason"]
      [] o.kind = "scored_noreason" ->
            [p EXCEPT !.scored = TRUE, !.score = o.score]
      [] o.kind \in {"no_json", "bad_score"} ->
            [p EXCEPT !.scored = FALSE, !.score = 0,
                      !.reason = "Failed to parse analysis."]
      [] o.kind = "request_error" ->
            [p EXCEPT !.scored = FALSE, !.score = 0,
                      !.reason = "Analysis failed or timed out"]
      [] OTHER ->
            [p EXCEPT !.scored = FALSE, !.score = 0,
                      !.reason = "Unexpected error"]

\* Which failures leave analyze_patent_with_ollama_async as an exception
\* (main.py:227-244): CancelledError is re-raised, everything else is caught.
\* Mutant: the handler of main.py:237-244 is missing, so an HTTP error status
\* leaves the call as an exception.
EscapesUnexpected(kind) == kind \in {"cancelled", "http_error"}

\* Mutant: CancelledError is caught like every other exception.
EscapesNothing(kind) == FALSE

Escapes(kind) == kind = "cancelled"

\* What a call routed to endpoint u can meet: a broken endpoint fails every
\* call (connection refused, or an error status), a working one may do anything.
OutcomesAt(u) ==
    IF u = broken
    THEN {o \in Outcomes : o.kind \in {"request_error", "http_error"}}
    ELSE Outcomes

\* ------------------------------------------------------------- aggregation
\* The sort key of main.py:340.
SortKey(p) == IF p.scored THEN p.score ELSE -1

\* list.sort(key=..., reverse=True) is stable: x goes behind every element
\* whose key is >= its own.
RECURSIVE InsertDesc(_, _)
InsertDesc(s, x) ==
    IF s = <<>> THEN <<x>>
    ELSE IF SortKey(patents[Head(s)]) >= SortKey(patents[x])
         THEN <<Head(s)>> \o InsertDesc(Tail(s), x)
         ELSE <<x>> \o s

\* Mutant: the sort without reverse=True (stable, ascending).
RECURSIVE InsertAsc(_, _)
InsertAsc(s, x) ==
    IF s = <<>> THEN <<x>>
    ELSE IF SortKey(patents[Head(s)]) <= SortKey(patents[x])
         THEN <<Head(s)>> \o InsertAsc(Tail(s), x)
         ELSE <<x>> \o s

RECURSIVE SortAsc(_)
SortAsc(s) ==
    IF s = <<>> THEN <<>>
    ELSE InsertAsc(SortAsc(SubSeq(s, 1, Len(s) - 1)), s[Len(s)])

RECURSIVE SortDesc(_)
SortDesc(s) ==
    IF s = <<>> THEN <<>>
    ELSE InsertDesc(SortDesc(SubSeq(s, 1, Len(s) - 1)), s[Len(s)])

IsScored(i) == patents[i].scored
IsHigh(i) == patents[i].scored /\ patents[i].score >= HIGH_SCORE_THRESHOLD
IsMedium(i) == patents[i].scored /\ patents[i].score >= MEDIUM_SCORE_THRESHOLD

\* main.py:312-313, 343-348.
ScoredPatents(s) == SelectSeq(s, IsScored)
HighConfidenceTotal(s) == SelectSeq(ScoredPatents(s), IsHigh)
MediumConfidenceTotal(s) == SelectSeq(ScoredPatents(s), IsMedium)

\* main.py:350, the slice [:max_display_results].
Prefix(s, n) == SubSeq(s, 1, IF n < Len(s) THEN n ELSE Len(s))

\* ------------------------------------------------- parts checked on their own
\* Before a text is parsed / a request is handled.
NoText == [span |-> "unset"]
NotParsed == <<>>
NoRequest == [route |-> "unset"]
NoResponse == [kind |-> "unset"]
NoOther == [pc |-> "unset"]
NoHttp == [client |-> "unset"]
NoUpsert == [pc |-> "unset"]
NoEncode == [pc |-> "unset"]

ExtraIdle ==
    /\ other = NoOther
    /\ http = NoHttp
    /\ upsert = NoUpsert
    /\ encode = NoEncode

UnitsIdle ==
    /\ ExtraIdle
    /\ raw_text = NoText
    /\ verdict = NotParsed
    /\ request = NoRequest
    /\ response = NoResponse

\* ----------------------------------------------------------------- Init
Init ==
    /\ pc = "start"
    /\ max_display_results \in 0..MaxResultLimit
    /\ concurrency \in 1..MaxConcurrency
    /\ broken \in {-1} \cup 0..(NumOllamaUrls - 1)
    /\ events = <<>>
    /\ patents = <<>>
    /\ tasks = <<>>
    /\ url = <<>>
    /\ met = <<>>
    /\ cursor = 0
    /\ permits = 0
    /\ completed = <<>>
    /\ processed = 0
    /\ analyzed_patents = <<>>
    /\ top_results = <<>>
    /\ fatal = ""
    /\ picked = <<>>
    /\ finished = <<>>
    /\ UnitsIdle

\* ---------------------------------------------------------- event_stream
\* main.py:253-255: the first log event, then the embedding call is awaited.
Begin ==
    /\ pc = "start"
    /\ events' = Append(events, LogEvent("[SEARCH] Starting search..."))
    /\ pc' = "embed"
    /\ UNCHANGED <<picked, finished, unitVars>>
    /\ UNCHANGED <<max_display_results, concurrency, broken, patents, tasks, url,
                   met, cursor, permits, completed, processed, analyzed_patents,
                   top_results, fatal>>

\* Mutant: no handler; the exception ends the generator without an event.
FailedSilently(stage) ==
    /\ events' = events
    /\ fatal' = stage
    /\ pc' = "done"

\* main.py:362-366: the handler of every Exception raised in the body.
Failed(stage) ==
    /\ events' = Append(events, ErrorEvent(stage))
    /\ fatal' = stage
    /\ pc' = "done"

\* main.py:255-258: the embedding returned; second log, search awaited.
EmbedOk ==
    /\ pc = "embed"
    /\ events' = Append(events, LogEvent("[SEARCH] Finding candidate patents..."))
    /\ pc' = "search"
    /\ UNCHANGED <<picked, finished, unitVars>>
    /\ UNCHANGED <<max_display_results, concurrency, broken, patents, tasks, url,
                   met, cursor, permits, completed, processed, analyzed_patents,
                   top_results, fatal>>

\* main.py:255 raising: embed_text_sync failed.
EmbedFail ==
    /\ pc = "embed"
    /\ Failed("embedding failed")
    /\ UNCHANGED <<picked, finished, unitVars>>
    /\ UNCHANGED <<max_display_results, concurrency, broken, patents, tasks, url,
                   met, cursor, permits, completed, processed, analyzed_patents,
                   top_results>>

\* main.py:258 raising: qdrant_search failed.
SearchFail ==
    /\ pc = "search"
    /\ Failed("index unavailable")
    /\ UNCHANGED <<picked, finished, unitVars>>
    /\ UNCHANGED <<max_display_results, concurrency, broken, patents, tasks, url,
                   met, cursor, permits, completed, processed, analyzed_patents,
                   top_results>>

\* Mutant: the empty case returns after its log, without the summary.
SearchEmptyNoSummary ==
    /\ pc = "search"
    /\ events' = Append(events, LogEvent("[SEARCH] No candidates found."))
    /\ pc' = "done"
    /\ UNCHANGED <<picked, finished, unitVars>>
    /\ UNCHANGED <<max_display_results, concurrency, broken, patents, tasks, url,
                   met, cursor, permits, completed, processed, analyzed_patents,
                   top_results, fatal>>

\* main.py:260-267: no candidates; one more log, the summary, return.
SearchEmpty ==
    /\ pc = "search"
    /\ events' = events \o <<LogEvent("[SEARCH] No candidates found."),
                             CompleteEvent(0, 0)>>
    /\ pc' = "done"
    /\ UNCHANGED <<picked, finished, unitVars>>
    /\ UNCHANGED <<max_display_results, concurrency, broken, patents, tasks, url,
                   met, cursor, permits, completed, processed, analyzed_patents,
                   top_results, fatal>>

\* main.py:269-287: n >= 1 candidates; log, client, counters, semaphore and
\* one task per candidate, all created before the first completion is awaited.
SearchFound(n) ==
    /\ pc = "search"
    /\ n >= 1
    /\ patents' = [i \in 0..(n - 1) |-> PendingPatent]
    /\ events' = Append(events,
                        LogEvent("[SEARCH] Found candidates, starting analysis..."))
    /\ analyzed_patents' = <<>>
    /\ processed' = 0
    /\ permits' = concurrency
    /\ tasks' = [i \in 0..(n - 1) |-> "waiting"]
    /\ url' = [i \in 0..(n - 1) |-> -1]
    /\ met' = [i \in 0..(n - 1) |-> ""]
    /\ completed' = <<>>
    /\ pc' = "loop"
    /\ UNCHANGED <<picked, finished, unitVars>>
    /\ UNCHANGED <<max_display_results, concurrency, broken, cursor, top_results,
                   fatal>>

\* ------------------------------------------------------------ judge tasks
\* Mutant: the judge call is not gated by the semaphore.
MayAcquireUngated(free) == TRUE

\* Mutant: a permit is taken only while another one stays free.
MayAcquireKeepingOne(free) == free > 1

\* async with semaphore (main.py:280): a task enters when a permit is free.
MayAcquire(free) == free > 0

InFlight == {i \in Indices : tasks[i] = "running"}

\* main.py:280-281 and 186-188: task i takes a permit, the judge call picks
\* its endpoint and the request is sent.  There is no suspension point between
\* the permit and get_next_ollama_url.  Tasks reach the semaphore in creation
\* order and asyncio wakes its waiters first-in first-out.
StartJudge(i) ==
    /\ tasks[i] = "waiting"
    /\ \A j \in Indices : j < i => tasks[j] # "waiting"
    /\ MayAcquire(permits)
    /\ permits' = permits - 1
    /\ url' = [url EXCEPT ![i] = cursor]
    /\ NextOllamaUrl(i)
    /\ tasks' = [tasks EXCEPT ![i] = "running"]
    /\ UNCHANGED <<finished, unitVars>>
    /\ UNCHANGED <<pc, max_display_results, concurrency, broken, events, patents,
                   met, completed, processed, analyzed_patents, top_results, fatal>>

\* main.py:188-244 and 282: the call of task i ends with outcome o.  The
\* candidate dict is updated in place, the permit goes back on leaving the
\* async with block, and the task joins as_completed's queue of finished tasks.
FinishJudge(i, o) ==
    /\ tasks[i] = "running"
    /\ o \in OutcomesAt(url[i])
    /\ IF Escapes(o.kind)
       THEN /\ tasks' = [tasks EXCEPT ![i] = "raised"]
            /\ UNCHANGED patents
       ELSE /\ tasks' = [tasks EXCEPT ![i] = "done"]
            /\ patents' = [patents EXCEPT ![i] = AnalyzeResult(patents[i], o)]
    /\ permits' = permits + 1
    /\ completed' = Append(completed, i)
    /\ finished' = Append(finished, i)
    /\ met' = [met EXCEPT ![i] = o.kind]
    /\ UNCHANGED <<picked, unitVars>>
    /\ UNCHANGED <<pc, max_display_results, concurrency, broken, events, url,
                   cursor, processed, analyzed_patents, top_results, fatal>>

\* Mutant: the result event is yielded twice.
IterationEventsTwice(idx, n) ==
    (IF patents[idx].scored
     THEN <<ResultEvent(idx, patents[idx]), ResultEvent(idx, patents[idx])>>
     ELSE <<>>)
    \o (IF ANALYSIS_PROGRESS_INTERVAL # 0 /\ n % ANALYSIS_PROGRESS_INTERVAL = 0
        THEN <<LogEvent("[ANALYZE] Processing patents...")>> ELSE <<>>)

\* main.py:295-307: the events of one loop iteration for candidate idx.
IterationEvents(idx, n) ==
    (IF patents[idx].scored THEN <<ResultEvent(idx, patents[idx])>> ELSE <<>>)
    \o (IF ANALYSIS_PROGRESS_INTERVAL # 0 /\ n % ANALYSIS_PROGRESS_INTERVAL = 0
        THEN <<LogEvent("[ANALYZE] Processing patents...")>> ELSE <<>>)

\* Mutant: the task that finished last is yielded first.
NextCompletedNewest(q) == q[Len(q)]

\* asyncio.as_completed (main.py:290): the futures come out in the order in
\* which the tasks finished.
NextCompleted(q) == Head(q)

\* Mutant: a yielded future stays in the queue.
RestOfQueueKeeping(q) == q

\* asyncio.as_completed (main.py:290): each future is yielded once.
RestOfQueue(q) == Tail(q)

\* main.py:290-309: one iteration of the loop over as_completed(tasks).  An
\* exception of the awaited task is raised by "await future" and lands in the
\* handler of main.py:362.
Consume ==
    /\ pc = "loop"
    /\ completed # <<>>
    /\ LET idx == NextCompleted(completed) IN
        /\ completed' = RestOfQueue(completed)
        /\ IF tasks[idx] = "raised"
           THEN /\ Failed("judge task raised")
                /\ UNCHANGED <<processed, analyzed_patents>>
           ELSE /\ processed' = processed + 1
                /\ events' = events \o IterationEvents(idx, processed + 1)
                /\ analyzed_patents' = Append(analyzed_patents, idx)
                /\ UNCHANGED <<pc, fatal>>
    /\ UNCHANGED <<picked, finished, unitVars>>
    /\ UNCHANGED <<max_display_results, concurrency, broken, patents, tasks, url,
                   met, cursor, permits, top_results>>

\* main.py:311-360: the loop is exhausted after len(tasks) completions; the
\* score summary is logged, the list is sorted and cut.  The "complete" event
\* of main.py:352-360 is commented out: the generator returns without it.
Finish ==
    /\ pc = "loop"
    /\ processed = Cardinality(Indices)
    /\ events' = events \o
          (IF ScoredPatents(analyzed_patents) # <<>>
           THEN <<LogEvent("[SUMMARY] Score range")>> ELSE <<>>)
    /\ analyzed_patents' = SortDesc(analyzed_patents)
    /\ top_results' = Prefix(HighConfidenceTotal(analyzed_patents),
                             max_display_results)
    /\ pc' = "done"
    /\ UNCHANGED <<picked, finished, unitVars>>
    /\ UNCHANGED <<max_display_results, concurrency, broken, patents, tasks, url,
                   met, cursor, permits, completed, processed, fatal>>

\* The event loop shuts down while the request is being served: every
\* unfinished task and event_stream itself get CancelledError.  A running call
\* re-raises it (main.py:227-228) and async with returns the permit
\* (main.py:280); event_stream's handler (main.py:362) does not catch it.
Shutdown ==
    /\ pc = "loop"
    /\ tasks' = [i \in Indices |->
                    IF tasks[i] = "waiting" THEN "cancelled"
                    ELSE IF tasks[i] = "running"
                         THEN (IF Escapes("cancelled") THEN "cancelled" ELSE "done")
                         ELSE tasks[i]]
    /\ permits' = permits + Cardinality(InFlight)
    /\ met' = [i \in Indices |->
                    IF tasks[i] = "running" THEN "cancelled" ELSE met[i]]
    /\ pc' = "cancelled"
    /\ UNCHANGED <<picked, finished, unitVars>>
    /\ UNCHANGED <<max_display_results, concurrency, broken, events, patents, url,
                   cursor, completed, processed, analyzed_patents, top_results,
                   fatal>>

Next ==
    \/ Begin
    \/ EmbedOk
    \/ EmbedFail
    \/ SearchFail
    \/ SearchEmpty
    \/ \E n \in 1..MaxCandidates : SearchFound(n)
    \/ \E i \in Indices : StartJudge(i)
    \/ \E i \in Indices : \E o \in Outcomes : FinishJudge(i, o)
    \/ Consume
    \/ Finish
    \/ Shutdown

Spec == Init /\ [][Next]_vars

\* The scheduling the event loop gives: a step that stays possible is taken.
\* The embedding and the index answer or fail (to_thread returns), a task
\* waiting at the semaphore is woken when a permit is free, every judge call
\* ends (it answers, fails, or httpx's timeout of main.py:77 expires), and the
\* consumer keeps reading the stream, which resumes the generator.  A shutdown
\* of the event loop is possible and never required.
Fairness ==
    /\ WF_vars(Begin)
    /\ WF_vars(EmbedOk \/ EmbedFail)
    /\ WF_vars(SearchFail \/ SearchEmpty
                 \/ \E n \in 1..MaxCandidates : SearchFound(n))
    /\ WF_vars(\E i \in Indices : StartJudge(i))
    /\ \A i \in 0..(MaxCandidates - 1) :
          WF_vars(i \in Indices /\ \E o \in Outcomes : FinishJudge(i, o))
    /\ WF_vars(Consume)
    /\ WF_vars(Finish)

FairSpec == Spec /\ Fairness

\* ------------------------------------------------------- no request running
\* The variables of one request, and their values while none is served.
requestVars == <<pc, max_display_results, concurrency, broken, events, patents,
                 tasks, url, met, permits, completed, processed,
                 analyzed_patents, top_results, fatal, finished>>

RequestIdle ==
    /\ pc = "idle"
    /\ max_display_results = 0
    /\ concurrency = 1
    /\ broken = -1
    /\ events = <<>>
    /\ patents = <<>>
    /\ tasks = <<>>
    /\ url = <<>>
    /\ met = <<>>
    /\ permits = 0
    /\ completed = <<>>
    /\ processed = 0
    /\ analyzed_patents = <<>>
    /\ top_results = <<>>
    /\ fatal = ""
    /\ finished = <<>>

\* ----------------------------------------------------------- verdict parser
\* A judge response text, by what the parser can tell apart:
\*   span   none           re.search finds no {...} span
\*          strict         json.loads decodes the span
\*          control_chars  json.loads raises JSONDecodeError, and decodes the
\*                         span once the characters 0x00-0x1f are removed
\*          garbage        json.loads raises JSONDecodeError both times
\*          too_deep       the span nests deeper than the interpreter's recursion
\*                         limit: json.loads raises RecursionError
\*   score  the form of the decoded object's "score": absent, null, a number
\*          (value), a numeric string (value), a non-numeric string, true, a
\*          list, or an integer too large for a float (e.g. 10^400)
\*   reason absent, empty or a text
DecodableSpans == {"strict", "control_chars"}
ScoreForms ==
    [form : {"number", "numeric_string"}, value : ScoreValues]
        \cup [form : {"absent", "null", "text", "true", "list", "huge_int"},
              value : {0}]
RawTexts ==
    [span : DecodableSpans, score : ScoreForms, reason : {"absent", "empty", "text"}]
        \cup [span : {"none", "garbage", "too_deep"},
              score : {[form |-> "absent", value |-> 0]}, reason : {"absent"}]

\* extract_json_from_text, main.py:132-143.  The first json.loads is guarded
\* against JSONDecodeError only, the second against every Exception.
ExtractJsonFromText(t) ==
    CASE t.span = "none" -> [kind |-> "none"]
      [] t.span = "strict" -> [kind |-> "object", score |-> t.score, reason |-> t.reason]
      [] t.span = "control_chars" ->
            [kind |-> "object", score |-> t.score, reason |-> t.reason]
      [] t.span = "garbage" -> [kind |-> "none"]
      [] t.span = "too_deep" -> [kind |-> "raised", error |-> "RecursionError"]

\* float(raw_score) under the handler of main.py:204-207, which catches
\* TypeError and ValueError: a number, None, or an exception that gets past.
\* round(x, 2) leaves the whole-number scores of the model as they are.
FloatOf(sc) ==
    CASE sc.form \in {"number", "numeric_string"} -> [kind |-> "value", value |-> sc.value]
      [] sc.form = "true" -> [kind |-> "value", value |-> 1]
      [] sc.form \in {"null", "list", "text"} -> [kind |-> "none"]
      [] sc.form = "huge_int" -> [kind |-> "raised", error |-> "OverflowError"]

ParseFailed(p) ==
    [p EXCEPT !.scored = FALSE, !.score = 0, !.reason = "Failed to parse analysis."]

\* main.py:200-225: extract_json_from_text, then the score coercion, applied
\* to the candidate dict p.
ParseVerdict(t, p) ==
    LET j == ExtractJsonFromText(t) IN
    IF j.kind = "raised" THEN [status |-> "raised", error |-> j.error]
    ELSE IF j.kind = "object" /\ j.score.form # "absent"
    THEN LET f == FloatOf(j.score) IN
         CASE f.kind = "raised" -> [status |-> "raised", error |-> f.error]
           [] f.kind = "value" ->
                [status |-> "returned",
                 patent |-> [p EXCEPT !.scored = TRUE, !.score = f.value,
                                      !.reason = IF j.reason = "text"
                                                 THEN "judge reason" ELSE @]]
           [] f.kind = "none" -> [status |-> "returned", patent |-> ParseFailed(p)]
    ELSE [status |-> "returned", patent |-> ParseFailed(p)]

ParseInit ==
    /\ RequestIdle
    /\ cursor = 0
    /\ picked = <<>>
    /\ raw_text \in RawTexts
    /\ verdict = NotParsed
    /\ request = NoRequest
    /\ response = NoResponse
    /\ ExtraIdle

\* The response text is parsed for a candidate fresh from qdrant_search.
ParseResponse ==
    /\ verdict = NotParsed
    /\ verdict' = <<ParseVerdict(raw_text, PendingPatent)>>
    /\ UNCHANGED <<requestVars, cursor, picked, raw_text, request, response, extraVars>>

\* The same text is parsed once more, for the candidate dict as the first
\* parse left it.
ParseResponseAgain ==
    /\ Len(verdict) = 1
    /\ verdict[1].status = "returned"
    /\ verdict' = Append(verdict, ParseVerdict(raw_text, verdict[1].patent))
    /\ UNCHANGED <<requestVars, cursor, picked, raw_text, request, response, extraVars>>

ParseNext == ParseResponse \/ ParseResponseAgain

ParseSpec == ParseInit /\ [][ParseNext]_vars

\* --------------------------------------------------------------- HTTP layer
\* The route handlers on their own.  A request names its handler, the
\* description ("" stands for a missing one, which both transports default to
\* "") and the limit parameter (maxDisplayResults, topK), -1 when it is omitted.
Handlers == {"search_api", "search_stream", "export_csv", "search_patents_csv"}
Requests ==
    [handler : Handlers, userDescription : {"", "a charging pad"},
     limit : {-1} \cup 0..MaxResultLimit]

LimitOr(r, default) == IF r.limit = -1 THEN default ELSE r.limit

\* What event_stream is called with.
StreamOf(user_description, limit) ==
    [kind |-> "stream", user_description |-> user_description,
     max_display_results |-> limit]

\* search_api, main.py:373-378: the JSON body of a POST.
SearchApi ==
    /\ request.handler = "search_api"
    /\ response = NoResponse
    /\ response' = StreamOf(request.userDescription,
                            LimitOr(request, SearchApiDefaultLimit))
    /\ UNCHANGED <<requestVars, cursor, picked, raw_text, verdict, request, extraVars>>

\* search_stream, main.py:381-390: the query parameters of a GET.
SearchStream ==
    /\ request.handler = "search_stream"
    /\ response = NoResponse
    /\ response' = StreamOf(request.userDescription,
                            LimitOr(request, SearchStreamDefaultLimit))
    /\ UNCHANGED <<requestVars, cursor, picked, raw_text, verdict, request, extraVars>>

\* A delimited file: the candidates the similarity index returned, what the
\* judging said about each (empty when nothing was judged) and the rows.
CsvOf(n, judged, rows) ==
    [kind |-> "csv", candidates |-> n, judged |-> judged, rows |-> rows]

\* export_csv, main.py:393-403: the index returns n candidates, at most the
\* limit asked for; the field names are taken from patents[0], which raises
\* IndexError on an empty list; the rows are the records as qdrant_search
\* built them.
ExportCsv(n) ==
    /\ request.handler = "export_csv"
    /\ response = NoResponse
    /\ n <= LimitOr(request, ExportCsvDefaultLimit)
    /\ response' = IF n = 0
                   THEN [kind |-> "error", error |-> "IndexError"]
                   ELSE CsvOf(n, <<>>, [k \in 1..n |-> PendingPatent])
    /\ UNCHANGED <<requestVars, cursor, picked, raw_text, verdict, request, extraVars>>

\* analyze_with_ollama_sync, routes/search.py:99-127: the decoded object when
\* it has score, level and reason, "Failed" when it has not, "Error" when the
\* request raised.
SyncOutcomes ==
    [kind : {"scored"}, score : ScoreValues]
        \cup [kind : {"incomplete", "error"}, score : {0}]
AnalyzeSync(p, o) ==
    CASE o.kind = "scored" ->
            [p EXCEPT !.scored = TRUE, !.score = o.score, !.reason = "judge reason"]
      [] o.kind = "incomplete" ->
            [p EXCEPT !.scored = FALSE, !.score = 0, !.reason = "Failed"]
      [] o.kind = "error" ->
            [p EXCEPT !.scored = FALSE, !.score = 0, !.reason = "Error"]

\* search_patents_csv, routes/search.py:152-177: the candidates are judged one
\* after the other (os is what each call met) and one row is written for each.
SearchPatentsCsv(os) ==
    /\ request.handler = "search_patents_csv"
    /\ response = NoResponse
    /\ Len(os) <= LimitOr(request, SearchPatentsCsvDefaultTopK)
    /\ LET results == [k \in DOMAIN os |-> AnalyzeSync(PendingPatent, os[k])] IN
         response' = CsvOf(Len(os), results, results)
    /\ UNCHANGED <<requestVars, cursor, picked, raw_text, verdict, request, extraVars>>

SeqsUpTo(S, n) == UNION {[1..k -> S] : k \in 0..n}

RouteInit ==
    /\ RequestIdle
    /\ cursor = 0
    /\ picked = <<>>
    /\ raw_text = NoText
    /\ verdict = NotParsed
    /\ request \in Requests
    /\ response = NoResponse
    /\ ExtraIdle

RouteNext ==
    \/ SearchApi
    \/ SearchStream
    \/ \E n \in 0..MaxCandidates : ExportCsv(n)
    \/ \E os \in SeqsUpTo(SyncOutcomes, MaxCandidates) : SearchPatentsCsv(os)

RouteSpec == RouteInit /\ [][RouteNext]_vars

\* --------------------------------------------------------- client disconnect
\* The client goes away while the response is streamed: the server stops
\* iterating event_stream and closes it at the await or yield where it is
\* suspended.  GeneratorExit and CancelledError are not Exceptions, so the
\* handler of main.py:362 does not run and nothing more is yielded.  The tasks
\* of main.py:284-287 were started with asyncio.create_task and nothing in
\* event_stream cancels them (there is no finally block): they stay scheduled
\* on the event loop.
Disconnect ==
    /\ pc \in {"embed", "search", "loop"}
    /\ pc' = "closed"
    /\ UNCHANGED <<picked, finished, unitVars>>
    /\ UNCHANGED <<max_display_results, concurrency, broken, events, patents,
                   tasks, url, met, cursor, permits, completed, processed,
                   analyzed_patents, top_results, fatal>>

CloseNext ==
    \/ Next
    \/ Disconnect

CloseSpec == Init /\ [][CloseNext]_vars

\* ------------------------------------------------------ two requests at once
\* A second call of event_stream ("request B") served on the same event loop
\* while the first runs.  Its candidate list, counters, semaphore and tasks are
\* locals of its own call (main.py:258, 269-287); what it reaches outside the
\* call is _ollama_cycle (ollama_service.py:7).  Its run is kept by counts:
\* tasks waiting at its semaphore, calls in flight, finished tasks not yet
\* consumed, and its processed counter.

\* Mutant: the semaphore is one module-level object, so the second request
\* takes its permit from the gate the first request uses.
OtherTakeShared ==
    /\ MayAcquire(permits)
    /\ permits' = permits - 1
    /\ other' = [other EXCEPT !.waiting = @ - 1, !.running = @ + 1]

\* main.py:277, 280: the permit comes from the semaphore created in this call.
OtherTake ==
    /\ MayAcquire(other.permits)
    /\ other' = [other EXCEPT !.permits = @ - 1, !.waiting = @ - 1,
                              !.running = @ + 1]
    /\ UNCHANGED permits

\* main.py:258-287 for request B: n candidates, fresh counters, a fresh
\* semaphore of OLLAMA_CONCURRENCY permits and one task per candidate.
OtherSearchFound(n) ==
    /\ other.pc = "idle"
    /\ other' = [pc |-> "loop", total |-> n, permits |-> concurrency,
                 waiting |-> n, running |-> 0, completed |-> 0, processed |-> 0]
    /\ UNCHANGED <<requestVars, cursor, picked, raw_text, verdict, request,
                   response, http, upsert, encode>>

\* main.py:280-281, 186-188 for a task of request B.
OtherStartJudge ==
    /\ other.pc = "loop"
    /\ other.waiting > 0
    /\ OtherTake
    /\ NextOllamaUrl("request B")
    /\ UNCHANGED <<pc, max_display_results, concurrency, broken, events, patents,
                   tasks, url, met, completed, processed, analyzed_patents,
                   top_results, fatal, finished>>
    /\ UNCHANGED <<raw_text, verdict, request, response, http, upsert, encode>>

\* main.py:188-244, 282 for a task of request B: the call ends, the permit
\* goes back to B's semaphore.
OtherFinishJudge ==
    /\ other.pc = "loop"
    /\ other.running > 0
    /\ other' = [other EXCEPT !.running = @ - 1, !.permits = @ + 1,
                              !.completed = @ + 1]
    /\ UNCHANGED <<requestVars, cursor, picked, raw_text, verdict, request,
                   response, http, upsert, encode>>

\* main.py:290-309 for request B: one iteration of its loop; the loop is left
\* after the last task.
OtherConsume ==
    /\ other.pc = "loop"
    /\ other.completed > 0
    /\ other' = [other EXCEPT
                    !.completed = @ - 1,
                    !.processed = @ + 1,
                    !.pc = IF other.processed + 1 = other.total
                           THEN "done" ELSE "loop"]
    /\ UNCHANGED <<requestVars, cursor, picked, raw_text, verdict, request,
                   response, http, upsert, encode>>

\* Both requests use every endpoint as working and the same result limit.
PairInit ==
    /\ pc = "start"
    /\ max_display_results = MaxResultLimit
    /\ concurrency \in 1..MaxConcurrency
    /\ broken = -1
    /\ events = <<>>
    /\ patents = <<>>
    /\ tasks = <<>>
    /\ url = <<>>
    /\ met = <<>>
    /\ cursor = 0
    /\ permits = 0
    /\ completed = <<>>
    /\ processed = 0
    /\ analyzed_patents = <<>>
    /\ top_results = <<>>
    /\ fatal = ""
    /\ picked = <<>>
    /\ finished = <<>>
    /\ raw_text = NoText
    /\ verdict = NotParsed
    /\ request = NoRequest
    /\ response = NoResponse
    /\ other = [pc |-> "idle"]
    /\ http = NoHttp
    /\ upsert = NoUpsert
    /\ encode = NoEncode

PairNext ==
    \/ Begin
    \/ EmbedOk
    \/ EmbedFail
    \/ SearchFail
    \/ SearchEmpty
    \/ \E n \in 1..MaxCandidates : SearchFound(n)
    \/ \E i \in Indices : StartJudge(i)
    \/ \E i \in Indices : \E o \in Outcomes : FinishJudge(i, o)
    \/ Consume
    \/ Finish
    \/ \E n \in 1..MaxCandidates : OtherSearchFound(n)
    \/ OtherStartJudge
    \/ OtherFinishJudge
    \/ OtherConsume

PairSpec == PairInit /\ [][PairNext]_vars

\* ------------------------------------------------------- shared HTTP client
\* _httpx_client (main.py:68): 0 stands for None, n >= 1 for the n-th
\* AsyncClient constructed.  built counts the constructions, resets the times
\* shutdown_http_client set the global back to None, closing is the instance
\* whose aclose() is awaited (0 for none), closed the instances aclose() was
\* called on, got the instance each get_httpx_client call returned and how
\* many resets had happened by then.
Users == {"request A", "request B"}

\* Mutant: the client is constructed without looking at the global.
IsNoneAlways(c) == TRUE

\* main.py:74, 76: _httpx_client is None.
IsNone(c) == c = 0

\* get_httpx_client, main.py:72-80.  asyncio.Lock.acquire returns without
\* suspending when the lock is free, and the lock is released before the next
\* suspension point, so a call runs from its first test to its return in one
\* step of the event loop.
GetHttpxClient(who) ==
    /\ Len(http.got) < MaxUses
    /\ LET fresh == http.built + 1
           c == IF IsNone(http.client) THEN fresh ELSE http.client IN
         http' = [http EXCEPT
                    !.client = c,
                    !.built = IF IsNone(http.client) THEN fresh ELSE @,
                    !.got = Append(@, [by |-> who, instance |-> c,
                                       resets |-> http.resets])]
    /\ UNCHANGED <<requestVars, cursor, picked, raw_text, verdict, request,
                   response, other, upsert, encode>>

\* shutdown_http_client, main.py:406-410: the client is present, aclose() is
\* called on it and awaited; the global still names it meanwhile.
ShutdownBegin ==
    /\ ~IsNone(http.client)
    /\ http.closing = 0
    /\ http' = [http EXCEPT !.closing = http.client,
                            !.closed = @ \cup {http.client}]
    /\ UNCHANGED <<requestVars, cursor, picked, raw_text, verdict, request,
                   response, other, upsert, encode>>

\* shutdown_http_client, main.py:411: aclose() returned, the global is reset.
ShutdownEnd ==
    /\ http.closing # 0
    /\ http' = [http EXCEPT !.client = 0, !.closing = 0, !.resets = @ + 1]
    /\ UNCHANGED <<requestVars, cursor, picked, raw_text, verdict, request,
                   response, other, upsert, encode>>

ClientInit ==
    /\ RequestIdle
    /\ cursor = 0
    /\ picked = <<>>
    /\ raw_text = NoText
    /\ verdict = NotParsed
    /\ request = NoRequest
    /\ response = NoResponse
    /\ other = NoOther
    /\ http = [client |-> 0, built |-> 0, resets |-> 0, closing |-> 0,
               closed |-> {}, got |-> <<>>]
    /\ upsert = NoUpsert
    /\ encode = NoEncode

ClientNext ==
    \/ \E who \in Users : GetHttpxClient(who)
    \/ ShutdownBegin
    \/ ShutdownEnd

ClientSpec == ClientInit /\ [][ClientNext]_vars

\* -------------------------------------------------- vectorization: upsert
\* One call of upsert_with_retry (vectorize_gpu.py:107-119).  attempt is the
\* loop variable, calls counts client.upsert calls, errors holds what each
\* failed call raised, waits the sleeps made, result what the call returned
\* ("" while it has not), raised what left the call as an exception.
UpsertErrors == {"timeout", "connection refused", "unexpected response"}

\* Mutant: the last attempt is not told apart, so the loop runs out.
IsLastAttemptNever(attempt, max_retries) == FALSE

\* vectorize_gpu.py:113.
IsLastAttempt(attempt, max_retries) == attempt = max_retries - 1

\* vectorize_gpu.py:116.
WaitTime(attempt) == 2 ^ attempt

\* vectorize_gpu.py:108-111: client.upsert returns; the call returns True.
UpsertOk ==
    /\ upsert.pc = "try"
    /\ upsert.attempt < upsert.max_retries
    /\ upsert' = [upsert EXCEPT !.calls = @ + 1, !.result = "True",
                                !.pc = "returned"]
    /\ UNCHANGED <<requestVars, cursor, picked, raw_text, verdict, request,
                   response, other, http, encode>>

\* vectorize_gpu.py:108-118: client.upsert raises e; on the last attempt the
\* exception is re-raised, otherwise the wait is computed and sleep begins.
UpsertFails(e) ==
    /\ upsert.pc = "try"
    /\ upsert.attempt < upsert.max_retries
    /\ IF IsLastAttempt(upsert.attempt, upsert.max_retries)
       THEN upsert' = [upsert EXCEPT !.calls = @ + 1,
                                     !.errors = Append(@, e),
                                     !.raised = e,
                                     !.pc = "raised"]
       ELSE upsert' = [upsert EXCEPT !.calls = @ + 1,
                                     !.errors = Append(@, e),
                                     !.waits = Append(@, WaitTime(upsert.attempt)),
                                     !.pc = "sleep"]
    /\ UNCHANGED <<requestVars, cursor, picked, raw_text, verdict, request,
                   response, other, http, encode>>

\* vectorize_gpu.py:118, 108: sleep returns, the loop goes to its next value.
UpsertWake ==
    /\ upsert.pc = "sleep"
    /\ upsert' = [upsert EXCEPT !.attempt = @ + 1, !.pc = "try"]
    /\ UNCHANGED <<requestVars, cursor, picked, raw_text, verdict, request,
                   response, other, http, encode>>

\* vectorize_gpu.py:119: range(max_retries) is exhausted.
UpsertLoopEnds ==
    /\ upsert.pc = "try"
    /\ upsert.attempt >= upsert.max_retries
    /\ upsert' = [upsert EXCEPT !.result = "False", !.pc = "returned"]
    /\ UNCHANGED <<requestVars, cursor, picked, raw_text, verdict, request,
                   response, other, http, encode>>

UpsertInit ==
    /\ RequestIdle
    /\ cursor = 0
    /\ picked = <<>>
    /\ raw_text = NoText
    /\ verdict = NotParsed
    /\ request = NoRequest
    /\ response = NoResponse
    /\ other = NoOther
    /\ http = NoHttp
    /\ \E m \in 0..MaxRetries :
          upsert = [pc |-> "try", max_retries |-> m, attempt |-> 0, calls |-> 0,
                    errors |-> <<>>, waits |-> <<>>, result |-> "",
                    raised |-> ""]
    /\ encode = NoEncode

UpsertNext ==
    \/ UpsertOk
    \/ \E e \in UpsertErrors : UpsertFails(e)
    \/ UpsertWake
    \/ UpsertLoopEnds

UpsertSpec == UpsertInit /\ [][UpsertNext]_vars

\* ----------------------------------------- vectorization: multi-GPU encoding
\* One batch through the multi-GPU path of main (vectorize_gpu.py:210-248).
\* The parsed documents are 0..T-1, text k is the text of document k, and an
\* embedding row is written as the document whose text it encodes.
\*   threads          each encoder thread: "unstarted", "running", "ended"
\*   chunks           texts_chunk handed to each thread
\*   embeddings_list  the slot of each GPU: None, or the array encode returned
\*   embeddings       what np.vstack gave, once the threads are joined
MaxOf(a, b) == IF a > b THEN a ELSE b
MinOf(a, b) == IF a < b THEN a ELSE b

\* vectorize_gpu.py:216.
ChunkSize(T, G) == MaxOf(1, T \div G)

\* texts[start:end]: a Python slice is clipped to the list.
PySlice(T, start, end) ==
    LET lo == MinOf(start, T)
        hi == MinOf(end, T) IN
    [k \in 1..MaxOf(0, hi - lo) |-> lo + k - 1]

\* vectorize_gpu.py:231-232: the slice of GPU i.
ChunkOf(i, T, G) ==
    LET start == i * ChunkSize(T, G)
        end == IF i = G - 1 THEN T ELSE start + ChunkSize(T, G) IN
    PySlice(T, start, end)

NoneSlot == [kind |-> "None", rows |-> <<>>]

\* What model.encode(texts_chunk, convert_to_numpy=True) returns: one row per
\* text; for an empty chunk the library builds the array from an empty list
\* of rows, which has no second dimension, or an array of zero rows.
EncodeResults(chunk) ==
    IF chunk = <<>>
    THEN {[kind |-> "flat", rows |-> <<>>], [kind |-> "matrix", rows |-> <<>>]}
    ELSE {[kind |-> "matrix", rows |-> chunk]}

RECURSIVE ConcatRows(_)
ConcatRows(list) ==
    IF list = <<>> THEN <<>> ELSE Head(list).rows \o ConcatRows(Tail(list))

\* vectorize_gpu.py:240: np.vstack([e for e in embeddings_list if e is not
\* None]).  vstack needs at least one array and arrays of one width.
Vstack(G, slots) ==
    LET IsPresent(e) == e.kind # "None"
        present == SelectSeq([k \in 1..G |-> slots[k - 1]], IsPresent) IN
    IF \/ present = <<>>
       \/ /\ \E k \in DOMAIN present : present[k].kind = "flat"
          /\ \E k \in DOMAIN present : present[k].kind = "matrix"
    THEN [kind |-> "ValueError", rows |-> <<>>]
    ELSE [kind |-> "matrix", rows |-> ConcatRows(present)]

\* vectorize_gpu.py:230-235: the main thread starts the thread of GPU i, the
\* threads being started in the order of the models.
EncodeStartThread(i) ==
    /\ encode.pc = "encoding"
    /\ i < encode.G
    /\ encode.threads[i] = "unstarted"
    /\ \A j \in 0..(i - 1) : encode.threads[j] # "unstarted"
    /\ encode' = [encode EXCEPT !.threads[i] = "running",
                                !.chunks[i] = ChunkOf(i, encode.T, encode.G)]
    /\ UNCHANGED <<requestVars, cursor, picked, raw_text, verdict, request,
                   response, other, http, upsert>>

\* encode_on_gpu, vectorize_gpu.py:219-227: encode returned and the thread
\* stored the array in its slot.
EncodeOnGpu(i, emb) ==
    /\ encode.pc = "encoding"
    /\ i < encode.G
    /\ encode.threads[i] = "running"
    /\ emb \in EncodeResults(encode.chunks[i])
    /\ encode' = [encode EXCEPT !.threads[i] = "ended",
                                !.embeddings_list[i] = emb]
    /\ UNCHANGED <<requestVars, cursor, picked, raw_text, verdict, request,
                   response, other, http, upsert>>

\* encode_on_gpu, vectorize_gpu.py:220: encode raised (out of memory, a
\* device error).  The exception ends the thread; the slot stays None.
EncodeOnGpuRaises(i) ==
    /\ encode.pc = "encoding"
    /\ i < encode.G
    /\ encode.threads[i] = "running"
    /\ encode' = [encode EXCEPT !.threads[i] = "ended"]
    /\ UNCHANGED <<requestVars, cursor, picked, raw_text, verdict, request,
                   response, other, http, upsert>>

\* vectorize_gpu.py:236-240: every thread was started and joined; vstack.
EncodeConcatenate ==
    /\ encode.pc = "encoding"
    /\ \A i \in 0..(encode.G - 1) : encode.threads[i] = "ended"
    /\ LET e == Vstack(encode.G, encode.embeddings_list) IN
         encode' = [encode EXCEPT
                      !.embeddings = e,
                      !.pc = IF e.kind = "ValueError" THEN "raised"
                             ELSE "concatenated"]
    /\ UNCHANGED <<requestVars, cursor, picked, raw_text, verdict, request,
                   response, other, http, upsert>>

\* vectorize_gpu.py:251-259: the batch handed to upsert_with_retry.
EncodeUpsert ==
    /\ encode.pc = "concatenated"
    /\ encode' = [encode EXCEPT
                      !.points = [ids |-> [k \in 1..encode.T |-> k - 1],
                                  vectors |-> encode.embeddings.rows,
                                  payloads |-> [k \in 1..encode.T |-> k - 1]],
                      !.pc = "upserting"]
    /\ UNCHANGED <<requestVars, cursor, picked, raw_text, verdict, request,
                   response, other, http, upsert>>

EncodeInit ==
    /\ RequestIdle
    /\ cursor = 0
    /\ picked = <<>>
    /\ raw_text = NoText
    /\ verdict = NotParsed
    /\ request = NoRequest
    /\ response = NoResponse
    /\ other = NoOther
    /\ http = NoHttp
    /\ upsert = NoUpsert
    /\ \E T \in 1..MaxTexts : \E G \in 2..MaxModels :
          encode = [pc |-> "encoding", T |-> T, G |-> G,
                    threads |-> [i \in 0..(G - 1) |-> "unstarted"],
                    chunks |-> [i \in 0..(G - 1) |-> <<>>],
                    embeddings_list |-> [i \in 0..(G - 1) |-> NoneSlot],
                    embeddings |-> NoneSlot,
                    points |-> [ids |-> <<>>, vectors |-> <<>>,
                                payloads |-> <<>>]]

EncodeNext ==
    \/ \E i \in 0..(MaxModels - 1) : EncodeStartThread(i)
    \/ \E i \in 0..(MaxModels - 1) :
          \E emb \in [kind : {"flat", "matrix"},
                      rows : {PySlice(MaxTexts, a, b) :
                                 a \in 0..MaxTexts, b \in 0..MaxTexts}] :
             EncodeOnGpu(i, emb)
    \/ \E i \in 0..(MaxModels - 1) : EncodeOnGpuRaises(i)
    \/ EncodeConcatenate
    \/ EncodeUpsert

EncodeSpec == EncodeInit /\ [][EncodeNext]_vars

\* ------------------------------------------------------------ endpoint pool
\* The process-wide rotation of ollama_service.py on its own: judge calls of
\* any request (Callers) select endpoints in any interleaving.  The cursor may
\* stand anywhere when the calls that are followed begin.
Callers == {"request A", "request B"}

PoolInit ==
    /\ RequestIdle
    /\ UnitsIdle
    /\ cursor \in 0..(NumOllamaUrls - 1)
    /\ picked = <<>>

GetNextOllamaUrl(who) ==
    /\ Len(picked) < MaxCalls
    /\ NextOllamaUrl(who)
    /\ UNCHANGED <<requestVars, unitVars>>

PoolNext == \E who \in Callers : GetNextOllamaUrl(who)

PoolSpec == PoolInit /\ [][PoolNext]_vars

\* ================================================================ claims
IsResult(e) == e.kind = "result"
IsError(e) == e.kind = "error"
IsTerminal(e) == e.kind \in {"complete", "error"}
ResultEvents == SelectSeq(events, IsResult)
Last(s) == s[Len(s)]

\* The request went through the judging loop to its natural end.
NaturalEnd == pc = "done" /\ fatal = "" /\ Indices # {}
\* The request ended on the zero-candidate path.
EmptyEnd == pc = "done" /\ fatal = "" /\ Indices = {}
\* The request ended because a single-shot stage failed.
FatalEnd == fatal \in {"embedding failed", "index unavailable"}

\* C1: the number of result events on the stream never exceeds the requested
\* resultLimit (max_display_results).
C1_ResultsWithinLimit == Len(ResultEvents) <= max_display_results

\* C2: the stream ends with exactly one terminal event (complete or error):
\* no event follows a terminal event, and a finished stream has one as its
\* last event.
C2_OneTerminalEvent ==
    /\ \A k \in DOMAIN events : IsTerminal(events[k]) => k = Len(events)
    /\ pc = "done" => (events # <<>> /\ IsTerminal(Last(events)))

\* C3: once at least resultLimit (>= 1) processed candidates score at or above
\* the high threshold, the dispatch loop stops: it takes no further completion,
\* so it does not wait for the remaining judge calls.
C3_EarlyStop ==
    [][(/\ pc = "loop"
        /\ max_display_results >= 1
        /\ Len(HighConfidenceTotal(analyzed_patents)) >= max_display_results)
       => processed' = processed]_vars

\* C4: every result event carries a score at or above the high threshold.
C4_ResultsMeetHighThreshold ==
    \A k \in DOMAIN events :
        IsResult(events[k]) => events[k].score >= HIGH_SCORE_THRESHOLD

\* C5 (as stated): result events are on the stream in non-increasing score
\* order.
C5_StreamNonIncreasing ==
    \A j, k \in DOMAIN ResultEvents :
        j < k => ResultEvents[j].score >= ResultEvents[k].score

\* C5 (amended): when the request has gone through the judging loop, the
\* retained judgments (analyzed_patents after the final sort) are in
\* non-increasing score order, an absent score counting as -1, and hold every
\* candidate; the result events themselves are in completion order.
C5_RetainedNonIncreasing ==
    NaturalEnd =>
        /\ Range(analyzed_patents) = Indices
        /\ \A j, k \in DOMAIN analyzed_patents :
              j < k => SortKey(patents[analyzed_patents[j]])
                         >= SortKey(patents[analyzed_patents[k]])

\* C5 witness: two results were streamed in increasing score order and the
\* final sort has put the retained judgments the other way round.
C5_Witness ==
    /\ NaturalEnd
    /\ Len(ResultEvents) = 2
    /\ ResultEvents[1].score < ResultEvents[2].score
    /\ analyzed_patents = <<ResultEvents[2].index, ResultEvents[1].index>>

\* C6: the judge calls in flight are never more than the concurrency limit,
\* every call in flight holds exactly one permit, and permits come back when a
\* call ends, by return, by failure or by cancellation.
C6_ConcurrencyBounded ==
    Indices # {} =>
        /\ Cardinality(InFlight) <= concurrency
        /\ permits = concurrency - Cardinality(InFlight)

\* C6 witness: the limit is reached while a task created up front still waits.
C6_Witness ==
    /\ Indices # {}
    /\ Cardinality(InFlight) = concurrency
    /\ \E i \in Indices : tasks[i] = "waiting"

\* C7: a failed judge call never aborts the request.  The candidate gets a
\* judgment with no score and a reason naming the failure, no task ends with an
\* exception, the only error events are those of the single-shot stages, and a
\* request that reaches the end of the loop has judged every candidate.
FailureReason(kind) ==
    CASE kind \in {"no_json", "bad_score"} -> "Failed to parse analysis."
      [] kind = "request_error" -> "Analysis failed or timed out"
      [] kind = "http_error" -> "Unexpected error"

C7_FailureIsLocal ==
    /\ \A i \in Indices :
          /\ tasks[i] # "raised"
          /\ met[i] \in FailureKinds =>
                /\ tasks[i] = "done"
                /\ ~patents[i].scored
                /\ patents[i].reason = FailureReason(met[i])
    /\ \A k \in DOMAIN events : IsError(events[k]) => FatalEnd
    /\ Indices # {} => fatal = ""
    /\ NaturalEnd =>
          /\ processed = Cardinality(Indices)
          /\ \A i \in Indices : tasks[i] = "done"

\* C7 witness: the request ended after one call failed and another was scored
\* and streamed.
C7_Witness ==
    /\ NaturalEnd
    /\ \E i, j \in Indices :
          /\ met[i] \in FailureKinds
          /\ met[j] = "scored"
          /\ \E k \in DOMAIN events :
                IsResult(events[k]) /\ events[k].index = j

\* C8: when the embedding call or the similarity search fails, the stream
\* holds exactly one error event, it is the last event, there is no result or
\* complete event, and no judge call was started.
C8_FatalFailure ==
    FatalEnd =>
        /\ pc = "done"
        /\ events # <<>>
        /\ IsError(Last(events))
        /\ \A k \in DOMAIN events :
              events[k].kind \in {"result", "complete", "error"} => k = Len(events)
        /\ Indices = {}
        /\ cursor = 0

\* C8 witness: the similarity search failed after the embedding succeeded.
C8_Witness == pc = "done" /\ fatal = "index unavailable" /\ Len(events) = 3

\* C9 (as stated): with zero candidates the whole stream is one log event
\* followed by complete with results = 0 and analyzed = 0.
C9_SingleLogThenComplete ==
    EmptyEnd =>
        /\ Len(events) = 2
        /\ events[1].kind = "log"
        /\ events[2] = CompleteEvent(0, 0)

\* C9 (amended): with zero candidates the whole stream is the three log
\* events of the stages (starting, finding candidates, no candidates found)
\* followed immediately by complete with results = 0 and analyzed = 0; there
\* is no result event and no judge call was started.
C9_ThreeLogsThenComplete ==
    EmptyEnd =>
        /\ events = <<LogEvent("[SEARCH] Starting search..."),
                      LogEvent("[SEARCH] Finding candidate patents..."),
                      LogEvent("[SEARCH] No candidates found."),
                      CompleteEvent(0, 0)>>
        /\ cursor = 0
        /\ tasks = <<>>

\* C9 witness: a request that ended on the zero-candidate path.
C9_Witness == EmptyEnd /\ Len(events) = 4

\* C10: with one endpoint failing every call while another call succeeds, the
\* request still ends with a complete event, and no candidate routed to the
\* broken endpoint has a populated score, in a result event or in the
\* retained judgments.
C10_BrokenEndpoint ==
    (/\ NaturalEnd
     /\ \E i \in Indices : url[i] = broken
     /\ \E j \in Indices : url[j] # broken /\ patents[j].scored)
    => /\ Last(events).kind = "complete"
       /\ \A i \in Indices :
             url[i] = broken =>
                /\ ~patents[i].scored
                /\ \A k \in DOMAIN events :
                      IsResult(events[k]) => events[k].index # i

\* Entries returned so far, in call order.
Entries == [k \in DOMAIN picked |-> picked[k].entry]
TimesPicked(e) == Cardinality({k \in DOMAIN picked : picked[k].entry = e})

\* C11: the endpoints selected by successive calls cycle with period K: the
\* i-th call returns the entry (c + i) mod K for the cursor position c of the
\* first call, wrapping after the last entry.
C11_RoundRobinCycle ==
    /\ \A k \in DOMAIN picked :
          Entries[k] = (Entries[1] + (k - 1)) % NumOllamaUrls
    /\ \A k \in DOMAIN picked :
          k + NumOllamaUrls \in DOMAIN picked => Entries[k + NumOllamaUrls] = Entries[k]
    /\ picked # <<>> => cursor = (Entries[1] + Len(picked)) % NumOllamaUrls

\* C11 witness: one caller alone made MaxCalls calls, starting in the middle of
\* the pool, so the selection wrapped and came back to its first entry.
C11_Witness ==
    /\ Len(picked) = MaxCalls
    /\ \A k \in DOMAIN picked : picked[k].by = "request A"
    /\ Entries[1] = 5
    /\ \E k \in DOMAIN picked : k > 1 /\ Entries[k] = 0
    /\ \E k \in DOMAIN picked : k > 1 /\ Entries[k] = 5

\* C12: under any interleaving of the callers no entry is selected twice
\* while another is skipped: any K consecutive selections are K different
\* entries, and after n selections every entry was selected floor(n/K) or
\* ceil(n/K) times.
C12_RotationFair ==
    /\ \A j, k \in DOMAIN picked :
          (j < k /\ k - j < NumOllamaUrls) => Entries[j] # Entries[k]
    /\ \A e \in 0..(NumOllamaUrls - 1) :
          LET n == Len(picked) IN
            /\ TimesPicked(e) >= n \div NumOllamaUrls
            /\ TimesPicked(e) <= (n + NumOllamaUrls - 1) \div NumOllamaUrls

\* C12 witness: two callers took turns for more than one turn of the pool.
C12_Witness ==
    /\ Len(picked) > NumOllamaUrls
    /\ \A k \in DOMAIN picked :
          k + 1 \in DOMAIN picked => picked[k].by # picked[k + 1].by

\* C13: for every response text, parsing (extract_json_from_text and the score
\* coercion) never raises, parsing the same text again gives the same verdict,
\* and the verdict is parse-failed with no score whenever the text holds no
\* decodable object or the decoded score is missing or not a number.
NoDecodableObject(t) == t.span \notin DecodableSpans
ScoreMissingOrNonNumeric(t) == t.score.form \in {"absent", "null", "text", "list"}

C13_ParserTotal ==
    /\ \A k \in DOMAIN verdict : verdict[k].status = "returned"
    /\ Len(verdict) = 2 => verdict[2] = verdict[1]
    /\ (verdict # <<>> /\ (NoDecodableObject(raw_text)
                            \/ ScoreMissingOrNonNumeric(raw_text)))
          => verdict[1] = [status |-> "returned", patent |-> ParseFailed(PendingPatent)]

\* C14: the POST body and the GET query parameters map to the same internal
\* call: event_stream gets the request's description and limit, and the limit
\* 15 when the request omits it, whichever transport carried the request.
C14_TransportsAgree ==
    (request.handler \in {"search_api", "search_stream"} /\ response # NoResponse)
    => response = StreamOf(request.userDescription, LimitOr(request, 15))

\* C15: the bulk export returns a delimited file for a candidate set of any
\* size, zero included, with exactly one row per candidate, every candidate
\* judged and its row carrying its verdict (score and reason).
C15_BulkExport ==
    (request.handler \in {"export_csv", "search_patents_csv"}
     /\ response # NoResponse)
    => /\ response.kind = "csv"
       /\ Len(response.rows) = response.candidates
       /\ Len(response.judged) = response.candidates
       /\ \A k \in DOMAIN response.rows :
             /\ response.rows[k].scored = response.judged[k].scored
             /\ response.rows[k].score = response.judged[k].score
             /\ response.rows[k].reason = response.judged[k].reason

\* C16: the dispatcher always returns: when every judge call ends and the
\* consumer keeps reading, the request's loop finishes and the stream ends.
C16_DispatcherReturns == <>(pc \in {"done", "cancelled"})

\* Several candidates went through a semaphore of one permit and the request
\* came to its end with all of them processed.
C16_Witness ==
    /\ pc = "done"
    /\ fatal = ""
    /\ concurrency = 1
    /\ Cardinality(Indices) >= 2
    /\ processed = Cardinality(Indices)

\* The candidates of the result events, in stream order.
ResultIndices == [k \in DOMAIN ResultEvents |-> ResultEvents[k].original_index]
\* s is duplicate-free.
NoDuplicates(s) == \A a, b \in DOMAIN s : s[a] = s[b] => a = b
\* x comes before y in s.
Precedes(s, x, y) == \E a, b \in DOMAIN s : a < b /\ s[a] = x /\ s[b] = y

\* C17: result events arrive in completion order: of two results on the
\* stream, the earlier one belongs to the candidate whose judge call finished
\* first; and a complete event, when sent, is the last event of the stream.
C17_CompletionOrder ==
    /\ \A a, b \in DOMAIN ResultIndices :
          a < b => Precedes(finished, ResultIndices[a], ResultIndices[b])
    /\ \A k \in DOMAIN events : events[k].kind = "complete" => k = Len(events)

\* Two results on the stream against submission order: the later candidate's
\* call finished first and its result came first.
C17_Witness ==
    /\ Len(ResultIndices) >= 2
    /\ ResultIndices[1] > ResultIndices[2]
    /\ Precedes(finished, ResultIndices[1], ResultIndices[2])

\* C18: a verdict is produced once per candidate: no index is yielded twice by
\* the loop, no candidate is in two judgments or two result events, and on
\* natural completion the processed count is the number of candidates.
C18_OncePerCandidate ==
    /\ NoDuplicates(analyzed_patents)
    /\ NoDuplicates(ResultIndices)
    /\ processed = Len(analyzed_patents)
    /\ NaturalEnd => /\ processed = Cardinality(Indices)
                     /\ Range(analyzed_patents) = Indices

\* Natural completion of a request with several candidates, every one scored.
C18_Witness ==
    /\ NaturalEnd
    /\ Cardinality(Indices) >= 2
    /\ Len(ResultEvents) = Cardinality(Indices)

\* The judge calls dispatched so far: the tasks that passed the semaphore.
Dispatched == Cardinality({i \in Indices : tasks[i] # "waiting"})

\* C19: the processed count never exceeds the dispatched count, and the
\* number of result events never exceeds the processed count.
C19_CountsOrdered ==
    /\ processed <= Dispatched
    /\ Len(ResultEvents) <= processed

\* Mid-request: a candidate without a score was processed, so the results are
\* fewer than the processed, while a further dispatched call is outstanding.
C19_Witness ==
    /\ pc = "loop"
    /\ processed >= 1
    /\ Len(ResultEvents) < processed
    /\ processed < Dispatched

\* The early-stop signal: the high-confidence list has reached the requested
\* result limit.
EarlyStopRaised ==
    /\ max_display_results >= 1
    /\ Len(HighConfidenceTotal(analyzed_patents)) >= max_display_results

\* C20: once the early-stop signal has been raised nothing more is yielded:
\* no result event and no judgment is added, a call that has not started
\* never starts, and no call is left in flight.
C20_NoYieldAfterStop ==
    [][EarlyStopRaised =>
         /\ Len(ResultEvents') = Len(ResultEvents)
         /\ Range(analyzed_patents') = Range(analyzed_patents)
         /\ \A i \in Indices : tasks[i] = "waiting" => tasks'[i] # "running"
         /\ InFlight' = {}]_vars

\* C21: a transport failure, a timeout, an error status or a parse failure
\* never leaves the judge call as an exception: the call returns the candidate
\* without a score.  A cancellation leaves the call as CancelledError and is
\* not turned into a failed verdict: the candidate keeps what it had.
C21_JudgeBoundary ==
    \A i \in Indices :
        /\ met[i] \in FailureKinds =>
              tasks[i] = "done" /\ ~patents[i].scored
        /\ met[i] = "cancelled" =>
              tasks[i] = "cancelled" /\ patents[i] = PendingPatent
        /\ tasks[i] = "raised" => met[i] = "cancelled"

\* One call of the request failed on the transport and returned, another was
\* cancelled while in flight.
C21_Witness ==
    \E i, j \in Indices :
        /\ met[i] = "request_error" /\ tasks[i] = "done"
        /\ met[j] = "cancelled" /\ tasks[j] = "cancelled"

\* The candidates whose judge call has started.
Started == {i \in Indices : url[i] # -1}
\* The selections made for candidate i.
PicksBy(i) == {k \in DOMAIN picked : picked[k].by = i}

\* C22: a judge call talks to one endpoint and is not retried: a candidate
\* whose call started has exactly one selection, the one its request went to,
\* whatever the call met; a candidate whose call did not start has none; the
\* selections of the request are as many as the calls that started and the
\* cursor has moved that many places.
C22_OneEndpointPerCall ==
    /\ \A i \in Indices :
          /\ Cardinality(PicksBy(i)) = (IF i \in Started THEN 1 ELSE 0)
          /\ \A k \in PicksBy(i) : picked[k].entry = url[i]
          /\ i \in Started <=> tasks[i] \in {"running", "done", "raised"}
                                \/ met[i] = "cancelled"
    /\ Len(picked) = Cardinality(Started)
    /\ cursor = Len(picked) % NumOllamaUrls

\* Two calls ended, one scored and one failed, each after one selection.
C22_Witness ==
    /\ Len(picked) = 2
    /\ \E i, j \in Indices :
          /\ tasks[i] = "done" /\ met[i] = "scored"
          /\ tasks[j] = "done" /\ met[j] \in FailureKinds

\* C23: at the end of the stream the retained judgments are in descending
\* score order, a judgment without a score counting as -1 and coming last, and
\* judgments of equal score are in ascending order of candidate index,
\* whatever the order in which the judge calls finished.
C23_SortedTiesByIndex ==
    NaturalEnd =>
        \A j, k \in DOMAIN analyzed_patents :
            j < k =>
                \/ SortKey(patents[analyzed_patents[j]])
                      > SortKey(patents[analyzed_patents[k]])
                \/ /\ SortKey(patents[analyzed_patents[j]])
                         = SortKey(patents[analyzed_patents[k]])
                   /\ analyzed_patents[j] < analyzed_patents[k]

\* C24: the high threshold is above the medium threshold, so the judgments
\* meeting the high threshold are never more than those meeting the medium
\* threshold and every judgment classified high is classified medium too.
C24_HighAboveMedium ==
    /\ Len(HighConfidenceTotal(analyzed_patents))
          <= Len(MediumConfidenceTotal(analyzed_patents))
    /\ \A i \in Indices : IsHigh(i) => IsMedium(i)

\* C25: a candidate record is immutable once the similarity index returned
\* it: no step of a judge task changes a field of a record in the list the
\* coordinating task holds.
C25_RecordImmutable ==
    [][\A i \in Indices : patents'[i] = patents[i]]_vars

\* What the first request owns: its candidates, tasks, gate, counters,
\* retained judgments and events.
OwnState == <<pc, events, patents, tasks, url, met, permits, completed,
              processed, analyzed_patents, top_results, fatal, finished>>
\* The judge calls request B has started.
OtherStarted == IF other.pc \in {"loop", "done"}
                THEN other.total - other.waiting ELSE 0

\* C26: two requests served at once have each their own run: a step of the
\* second request leaves the candidates, counters, retained judgments, gate
\* and events of the first as they were, each gate counts only the calls of
\* its own request, the first request's counts stay consistent, and the
\* endpoint rotation is what they share: its selections are those of both.
C26_RunsIndependent ==
    /\ [][other' # other => UNCHANGED OwnState]_vars
    /\ [](pc = "loop" => permits + Cardinality(InFlight) = concurrency)
    /\ [](other.pc = "loop" => other.permits + other.running = concurrency)
    /\ [](processed = Len(analyzed_patents) /\ Len(ResultEvents) <= processed)
    /\ [](Len(picked) = Cardinality(Started) + OtherStarted)

\* Both requests are in their judging loop with calls in flight, each has
\* processed a candidate, and the second request's selection came first: the
\* first call of the first request went to the second endpoint.
C26_Witness ==
    /\ pc = "loop" /\ other.pc = "loop"
    /\ InFlight # {} /\ other.running > 0
    /\ processed >= 1 /\ other.processed >= 1
    /\ url[0] = 1

\* C27: between two resets the client is constructed at most once and every
\* caller gets that instance; a reset leaves no client behind that was not
\* closed; after a reset the next call constructs one new instance.
C27_OneClient ==
    /\ \A j, k \in DOMAIN http.got :
          http.got[j].resets = http.got[k].resets
             => http.got[j].instance = http.got[k].instance
    /\ \A j \in DOMAIN http.got : http.got[j].instance = http.got[j].resets + 1
    /\ http.built = http.resets + (IF http.client = 0 THEN 0 ELSE 1)
    /\ http.client = 0 => http.closed = 1..http.built
    /\ http.client # 0 =>
          http.client = http.built /\ http.closed \subseteq 1..http.built

\* Two callers shared the first instance, the client was shut down, and a
\* later call got a second instance.
C27_Witness ==
    /\ http.resets = 1
    /\ http.built = 2
    /\ \E j, k, l \in DOMAIN http.got :
          /\ http.got[j].by # http.got[k].by
          /\ http.got[j].instance = 1 /\ http.got[k].instance = 1
          /\ http.got[l].instance = 2

\* C28: no judge task outlives its request: once the stream has ended, by the
\* end of the loop, by an error event, or by the client disconnecting and the
\* generator being closed, no judge call of the request is in flight or
\* waiting at the semaphore.
C28_NoTaskOutlives ==
    pc \in {"done", "closed", "cancelled"} =>
        \A i \in Indices : tasks[i] \notin {"waiting", "running"}

\* C29: with max_retries >= 1, upsert_with_retry calls client.upsert at most
\* max_retries times, returns True at the first success with no call after
\* it, sleeps 2^attempt seconds after every failed attempt but the last, and
\* after max_retries failures re-raises the last exception; it never returns
\* False.
C29_UpsertRetry ==
    upsert.max_retries >= 1 =>
        /\ upsert.calls <= upsert.max_retries
        /\ upsert.result # "False"
        /\ upsert.waits = [k \in 1..Len(upsert.waits) |-> 2 ^ (k - 1)]
        /\ upsert.pc = "returned" =>
              /\ upsert.result = "True"
              /\ upsert.calls = Len(upsert.errors) + 1
              /\ Len(upsert.waits) = Len(upsert.errors)
        /\ upsert.pc = "raised" =>
              /\ upsert.calls = upsert.max_retries
              /\ Len(upsert.errors) = upsert.max_retries
              /\ upsert.raised = upsert.errors[upsert.max_retries]
              /\ Len(upsert.waits) = upsert.max_retries - 1
              /\ upsert.result = ""
        /\ upsert.pc \in {"try", "sleep"} =>
              /\ upsert.calls = Len(upsert.errors)
              /\ Len(upsert.waits) = Len(upsert.errors)

\* A call with three attempts allowed failed three times, having slept 1 and
\* 2 seconds, and raised what the third attempt raised.
C29_Witness ==
    /\ upsert.pc = "raised"
    /\ upsert.max_retries = 3
    /\ upsert.waits = <<1, 2>>
    /\ upsert.errors = <<"timeout", "timeout", "unexpected response">>
    /\ upsert.raised = "unexpected response"

\* C30: in the multi-GPU path the chunks handed to the threads are
\* contiguous, in order, and cover every text once; the threads are all
\* joined before the concatenation; and the concatenated embeddings have one
\* row per text, row i for document i, so that the ids, vectors and payloads
\* of the upserted batch line up.
C30_RowsMatchDocuments ==
    LET G == encode.G
        T == encode.T
        docs == [k \in 1..T |-> k - 1] IN
    encode.pc # "unset" =>
        /\ (\A i \in 0..(G - 1) : encode.threads[i] # "unstarted") =>
              ConcatRows([k \in 1..G |-> [rows |-> encode.chunks[k - 1]]]) = docs
        /\ encode.pc # "encoding" =>
              \A i \in 0..(G - 1) : encode.threads[i] = "ended"
        /\ encode.pc # "raised"
        /\ encode.pc \in {"concatenated", "upserting"} =>
              encode.embeddings.rows = docs
        /\ encode.pc = "upserting" =>
              /\ encode.points.vectors = encode.points.ids
              /\ encode.points.payloads = encode.points.ids

====
